---- MODULE Spec2Model ----
(***************************************************************************)
(* Nexus child lifecycle (mayastor/src/bdev/nexus/nexus_child.rs) and the  *)
(* CSI node plugin (csi/src/findmnt.rs, csi/src/nodeplugin_svc.rs).        *)
(*                                                                         *)
(* NexusChild objects created over one underlying block device (or over   *)
(* none) are driven through open/online, close/offline, fault,            *)
(* out_of_sync, destroy and get_dev.  The reactor is single threaded and   *)
(* open/close/fault do not suspend: each is one atomic step.  destroy is  *)
(* an async fn that suspends at bdev_destroy(..).await: its call and its  *)
(* completion are two steps, and other operations run in between.  Each   *)
(* step records what it did (the events it performed, in order, and its   *)
(* return value) in the history variable last.                            *)
(*                                                                         *)
(*   Spec         a single child, and the rebuild registry it queries     *)
(*   SpecSynced   the same, with the history of Faulted(OutOfSync)        *)
(*   SpecPair     two children of two nexuses over the same device        *)
(*   SpecFindmnt  the mount probe applied to an output of findmnt         *)
(*   SpecCsi      freeze_volume, unfreeze_volume and find_volume, two     *)
(*                calls in flight                                         *)
(***************************************************************************)
EXTENDS Integers, Sequences, FiniteSets, TLC

\* The size of the device; parent sizes range over 0..MaxSize+1.
MaxSize == 1
\* Largest progress a rebuild job reports (a percentage, scaled down).
MaxProgress == 1
\* Longest source string, in tokens, that findmnt prints.
MaxLen == 5
\* Most records in an output of findmnt.
MaxEntries == 2
\* Most destroy calls suspended at the same time.
MaxPending == 1

None == "None"
\* No descriptor / no handle (Option::None of a descriptor id).
NoDesc == 0

\* The child objects that can be created.  Both have the same name (the URI
\* of the one device), under two different parents.
Children == {"c1", "c2"}
BdevName == "bdev0"
name(c) == BdevName
parent(c) == IF c = "c1" THEN "n1" ELSE "n2"

\* enum Reason
Reason == {"Undefined", "OutOfSync", "CantOpen"}

\* enum ChildState
StateInit == [tag |-> "Init", reason |-> None]
StateConfigInvalid == [tag |-> "ConfigInvalid", reason |-> None]
StateOpen == [tag |-> "Open", reason |-> None]
StateClosed == [tag |-> "Closed", reason |-> None]
Faulted(r) == [tag |-> "Faulted", reason |-> r]
ChildState == {StateInit, StateConfigInvalid, StateOpen, StateClosed}
                 \cup {Faulted(r) : r \in Reason}
IsFaulted(s) == s.tag = "Faulted"

\* Result values: Ok(v) and the ChildError variants, with their payload.
Ok(v) == [tag |-> "Ok", val |-> v]
Err(e) == [tag |-> e, val |-> <<>>]
ChildTooSmall(child_size, parent_size) ==
    [tag |-> "ChildTooSmall", val |-> <<child_size, parent_size>>]
\* A failed assert_eq! or an unwrap() of None or Err: the thread panics.
Panic == [tag |-> "Panic", val |-> <<>>]
\* Poll::Pending: the future of an async fn is suspended at an await.
Pending == [tag |-> "Pending", val |-> <<>>]

VARIABLES
    live,       \* the child objects that have been created
    children,   \* c -> the fields of the NexusChild object
    dev,        \* the underlying block device, as the driver holds it
    cfg,        \* Config::get(): err_store_opts
    panicked,   \* an operation panicked: the program is gone
    last,       \* history: the last operation, its inputs, events and result
    trip,       \* history: how far the last calls follow open; close; open
    synced,     \* history: c -> FALSE once c has been Faulted(OutOfSync)
    tasks,      \* t -> the call of the CSI node plugin task t makes
    destroying, \* c -> the destroy calls of c suspended at the await
    mtab,       \* what running the findmnt utility gives
    csi         \* history: the last call of the CSI node plugin

vars ==
    <<live, children, dev, cfg, panicked, last, trip, synced,
      destroying, mtab, csi, tasks>>
csiVars == <<mtab, csi, tasks>>
childVars ==
    <<live, children, dev, cfg, panicked, last, trip, synced,
      destroying>>

\* NexusChild::new
new(bdev) ==
    [bdev |-> bdev, desc |-> NoDesc, state |-> StateInit,
     bdev_handle |-> NoDesc, err_store |-> None]

NoOp == [op |-> None, c |-> None, arg |-> <<>>, ret |-> Err(None),
         pre |-> new(None),
         preDev |-> [size |-> 0, claim |-> None, exists |-> FALSE],
         postDev |-> [size |-> 0, claim |-> None, exists |-> FALSE],
         preJobs |-> {}, preCfg |-> [enable_err_store |-> FALSE],
         log |-> <<>>]

\* The state an operation works on, with the events performed so far.
World == [children |-> children, dev |-> dev, cfg |-> cfg,
          log |-> <<>>, ret |-> Err(None)]

\* One event of an operation on child c: what was done, and the child and the
\* device's claim token as they were right after it.
Event(w, c, ev) == [ev |-> ev, seen |-> w.children[c], claim |-> w.dev.claim]
Emit(w, c, ev) == [w EXCEPT !.log = Append(@, Event(w, c, ev))]
Return(w, r) == [w EXCEPT !.ret = r]
Count(log, ev) == Cardinality({i \in 1..Len(log) : log[i].ev = ev})

\* NexusChild::status
status(ch) == ch.state

\* NexusChild::set_state
set_state(w, c, s) ==
    Emit([w EXCEPT !.children[c].state = s], c, "set_state")

\* NexusChild::save_state_change: ChildStatusConfig::save() reads the
\* children as they are when it is called; a failure is only logged.
save_state_change(w, c) == Emit(w, c, "save")

\* Bdev::size_in_bytes
size_in_bytes(w) == w.dev.size

\* Descriptors in use, and the one a successful open hands out.
DescIds == 1..(2 * Cardinality(Children) + 1)
InUse(w) == {w.children[c].desc : c \in Children}
               \cup {w.children[c].bdev_handle : c \in Children}
FreshDesc(w) == CHOOSE d \in DescIds :
                  /\ d \notin InUse(w)
                  /\ \A e \in DescIds : e < d => e \in InUse(w)

\* Bdev::open_by_name(name, true): the block-device layer looks the device up
\* and takes the exclusive claim for the caller; it fails when the device is
\* gone or already claimed, and may fail for a reason of its own (ok = FALSE).
open_by_name(w, c, ok) ==
    IF ok /\ w.dev.exists /\ w.dev.claim = None
    THEN [w |-> Emit([w EXCEPT !.dev.claim = c], c, "open_by_name"),
          desc |-> FreshDesc(w)]
    ELSE [w |-> Emit(w, c, "open_by_name"), desc |-> NoDesc]

\* The size check with >= for >.
too_small_or_equal(parent_size, child_size) == parent_size >= child_size

\* The size check of open
too_small(parent_size, child_size) == parent_size > child_size

\* The state check letting an out-of-sync child through.
open_rejects_not_out_of_sync(s) == IsFaulted(s) /\ s.reason # "OutOfSync"

\* The state check of open: Faulted children are rejected
open_rejects(s) == IsFaulted(s)

\* An assignment to the Option field of child c replaces its value: the
\* value it held, if any, is dropped.
Replace(w, c, old, ev) == IF old # NoDesc THEN Emit(w, c, ev) ELSE w

\* open_store with the I/O handle left unset.
open_store_no_handle(w, c, desc, hdl) ==
    IF ~hdl THEN Return(Emit(w, c, "drop_desc"), Panic)
    ELSE Replace([w EXCEPT !.children[c].desc = desc],
                 c, w.children[c].desc, "drop_desc")

\* open, once the device is open: the handle and the descriptor are stored,
\* in this order, each assignment dropping what the field held.  When
\* BdevHandle::try_from fails (hdl = FALSE) the unwrap panics: nothing has
\* been stored, the descriptor just opened is dropped as the stack unwinds,
\* and the claim taken by open_by_name stays on the device.
open_store(w, c, desc, hdl) ==
    IF ~hdl THEN Return(Emit(w, c, "drop_desc"), Panic)
    ELSE LET w1 == Replace([w EXCEPT !.children[c].bdev_handle = desc],
                           c, w.children[c].bdev_handle, "drop_handle")
         IN Replace([w1 EXCEPT !.children[c].desc = desc],
                    c, w.children[c].desc, "drop_desc")

\* NexusChild::open.  Only a Faulted child returns early; an Open child goes
\* on like any other.  Without a bdev the assert_eq! (Open) or the unwrap
\* (any other state) panics.
open(w, c, parent_size, ok, hdl) ==
    LET ch == w.children[c] IN
    IF open_rejects(status(ch)) THEN Return(w, Err("ChildFaulted"))
    ELSE IF ch.bdev = None THEN Return(w, Panic)
    ELSE
      LET child_size == size_in_bytes(w) IN
      IF too_small(parent_size, child_size)
      THEN Return(set_state(w, c, StateConfigInvalid),
                  ChildTooSmall(child_size, parent_size))
      ELSE
        LET r == open_by_name(w, c, ok) IN
        IF r.desc = NoDesc
        THEN Return(set_state(r.w, c, Faulted("CantOpen")), Err("OpenChild"))
        ELSE
          LET w1 == open_store(r.w, c, r.desc, hdl)
              w2 == IF w1.cfg.enable_err_store
                    THEN [w1 EXCEPT !.children[c].err_store = "Some"]
                    ELSE w1
              w3 == set_state(w2, c, StateOpen)
          IN IF w1.ret = Panic THEN w1
             ELSE Return(save_state_change(w3, c), Ok(name(c)))

\* NexusChild::online
online(w, c, parent_size, ok, hdl) == open(w, c, parent_size, ok, hdl)

\* _close dropping the handle and keeping the descriptor.
_close_keeps_desc(w, c) ==
    LET ch == w.children[c]
        w1 == IF ch.bdev # None /\ w.dev.claim # None
              THEN Emit([w EXCEPT !.dev.claim = None], c, "release_claim")
              ELSE w
    IN Emit([w1 EXCEPT !.children[c].bdev_handle = NoDesc], c, "drop_handle")

\* _close leaving the module's claim on the device in place.
_close_keeps_claim(w, c) ==
    LET w2 == Emit([w EXCEPT !.children[c].bdev_handle = NoDesc],
                   c, "drop_handle")
    IN Emit([w2 EXCEPT !.children[c].desc = NoDesc], c, "drop_desc")

\* _close dropping the descriptor before the handle.
_close_desc_first(w, c) ==
    LET ch == w.children[c]
        w1 == IF ch.bdev # None /\ w.dev.claim # None
              THEN Emit([w EXCEPT !.dev.claim = None], c, "release_claim")
              ELSE w
        w2 == Emit([w1 EXCEPT !.children[c].desc = NoDesc], c, "drop_desc")
    IN Emit([w2 EXCEPT !.children[c].bdev_handle = NoDesc], c, "drop_handle")

\* NexusChild::_close
_close(w, c) ==
    LET ch == w.children[c]
        w1 == IF ch.bdev # None /\ w.dev.claim # None
              THEN Emit([w EXCEPT !.dev.claim = None], c, "release_claim")
              ELSE w
        w2 == Emit([w1 EXCEPT !.children[c].bdev_handle = NoDesc],
                   c, "drop_handle")
    IN Emit([w2 EXCEPT !.children[c].desc = NoDesc], c, "drop_desc")

\* close saving the status before the state is set.
close_saves_first(w, c) ==
    Return(set_state(save_state_change(_close(w, c), c), c, StateClosed),
           Ok(StateClosed))

\* NexusChild::close
close(w, c) ==
    Return(save_state_change(set_state(_close(w, c), c, StateClosed), c),
           Ok(StateClosed))

\* NexusChild::offline: what close returns is discarded
offline(w, c) == Return(close(w, c), Ok(None))

\* NexusChild::fault; reason is None or a Reason
fault(w, c, reason) ==
    LET w1 == _close(w, c)
        w2 == IF reason # None
              THEN set_state(w1, c, Faulted(reason))
              ELSE set_state(w1, c, Faulted("Undefined"))
    IN Return(save_state_change(w2, c), Ok(None))

\* out_of_sync faulting the child whatever the flag.
out_of_sync_always(w, c, flag) == fault(w, c, "OutOfSync")

\* NexusChild::out_of_sync
out_of_sync(w, c, flag) ==
    IF flag THEN fault(w, c, "OutOfSync") ELSE Return(w, Ok(None))

\* bdev_destroy(name), up to its await: the destructor of the underlying
\* device is requested and the caller is suspended.
bdev_destroy(w, c) == Return(Emit(w, c, "bdev_destroy"), Pending)

\* bdev_destroy(name), from its await on: the destructor has run.  It fails
\* when the device is gone already, and may fail for a reason of its own
\* (ok = FALSE).  Once it has succeeded the device is unregistered and its
\* memory freed, with what it held left in it; the Bdev references the
\* children keep are dangling.
bdev_destroy_done(w, c, ok) ==
    IF ok /\ w.dev.exists
    THEN Return(Emit([w EXCEPT !.dev.exists = FALSE], c, "bdev_destroyed"),
                Ok(None))
    ELSE Return(w, Err("NexusBdevError"))

\* destroy without the assertion on the state.
destroy_unchecked(w, c) ==
    LET ch == w.children[c] IN
    IF ch.bdev # None THEN bdev_destroy(w, c)
    ELSE Return(w, Ok(None))

\* NexusChild::destroy, up to the await of bdev_destroy
destroy(w, c) ==
    LET ch == w.children[c] IN
    IF status(ch) # StateClosed THEN Return(w, Panic)
    ELSE IF ch.bdev # None THEN bdev_destroy(w, c)
    ELSE Return(w, Ok(None))

\* NexusChild::destroy, resumed: it returns what bdev_destroy returns
destroy_done(w, c, ok) == bdev_destroy_done(w, c, ok)

\* NexusChild::can_rw
can_rw(ch) == status(ch) = StateOpen

\* NexusChild::get_dev
get_dev(ch) ==
    IF ~can_rw(ch) THEN Err("ChildClosed")
    ELSE IF ch.bdev # None /\ ch.bdev_handle # NoDesc
         THEN Ok(<<ch.bdev, ch.bdev_handle>>)
         ELSE Err("ChildInvalid")

----------------------------------------------------------------------------
\* The CSI node plugin: csi/src/findmnt.rs and csi/src/nodeplugin_svc.rs
\*
\* A string is the sequence of its tokens: "/", "[", "]" and the line feed
\* are the characters themselves, any other token is a run of characters
\* none of which is one of the four ("/dev/x" is <<"/", "dev", "/", "x">>).
\* The regular expression of convert_findmnt_devicepath tells only these
\* four characters from the rest.

LF == "\n"
Tokens == {"/", "[", "]", LF, "dev", "x"}

TARGET_KEY == <<"target">>
SOURCE_KEY == <<"source">>
FSTYPE_KEY == <<"fstype">>

Max(S) == CHOOSE m \in S : \A k \in S : k <= m
Min(S) == CHOOSE m \in S : \A k \in S : m <= k

\* The "." of a regex matches any character but the line feed: a match of
\* .* lies within one line.
SameLine(s, a, b) == \A k \in a..b : s[k] # LF

\* Where the regex .*\[(?P<device>/.*)\] can match its "[": a "[" followed
\* by "/" and, later in the same line, by a "]".
Brackets(s) ==
    {i \in 1..(Len(s) - 2) :
        /\ s[i] = "[" /\ s[i + 1] = "/"
        /\ \E j \in (i + 2)..Len(s) : s[j] = "]" /\ SameLine(s, i, j)}

\* convert_findmnt_devicepath: the match found is the leftmost one, so it
\* lies in the first line that has one; both .* are greedy, so the device
\* is what lies between the last "[/" of that line that has a "]" after it
\* and the last "]" of that line.
convert_findmnt_devicepath(devpath) ==
    IF Brackets(devpath) = {} THEN devpath
    ELSE LET first == Min(Brackets(devpath))
             i == Max({k \in Brackets(devpath) : SameLine(devpath, first, k)})
             j == Max({k \in (i + 2)..Len(devpath) :
                         devpath[k] = "]" /\ SameLine(devpath, i, k)})
         IN <<"/", "dev">> \o SubSeq(devpath, i + 1, j - 1)

\* serde_json::Value: a string, a value of another scalar type, an array or
\* an object (its fields in the order of iteration).
JStr(s) == [t |-> "string", s |-> s, items |-> <<>>, fields |-> <<>>]
JNum == [t |-> "number", s |-> <<>>, items |-> <<>>, fields |-> <<>>]
JArr(items) == [t |-> "array", s |-> <<>>, items |-> items, fields |-> <<>>]
JObj(fields) == [t |-> "object", s |-> <<>>, items |-> <<>>, fields |-> fields]

\* serde_json::Map::get
HasKey(fields, key) == \E i \in 1..Len(fields) : fields[i].k = key
Get(fields, key) ==
    fields[CHOOSE i \in 1..Len(fields) : fields[i].k = key].v

\* struct FindmntFilter
FindmntFilter(key, value) == [key |-> key, value |-> value]

\* impl PartialEq<Value> for FindmntFilter
FindmntFilter_eq(filter, value) ==
    IF /\ filter.key = SOURCE_KEY
       /\ value.t = "string"
       /\ convert_findmnt_devicepath(value.s) = filter.value
    THEN TRUE
    ELSE value.t = "string" /\ filter.value = value.s

\* jsonmap_to_hashmap leaving the source as findmnt printed it.
jsonmap_to_hashmap_raw(json_map) ==
    LET keys == {json_map[i].k : i \in {n \in 1..Len(json_map) :
                                         json_map[n].v.t = "string"}}
    IN [key \in keys |-> Get(json_map, key).s]

\* jsonmap_to_hashmap: the string-valued fields, the source converted
jsonmap_to_hashmap(json_map) ==
    LET keys == {json_map[i].k : i \in {n \in 1..Len(json_map) :
                                         json_map[n].v.t = "string"}}
    IN [key \in keys |->
            IF key = SOURCE_KEY
            THEN convert_findmnt_devicepath(Get(json_map, key).s)
            ELSE Get(json_map, key).s]

\* filter_findmnt: the results pushed, in order.  filter_each is the loop
\* over an array, filter_arrays the loop over the array-valued fields.
RECURSIVE filter_findmnt(_, _), filter_each(_, _), filter_arrays(_, _)
filter_each(json_array, filter) ==
    IF json_array = <<>> THEN <<>>
    ELSE filter_findmnt(Head(json_array), filter)
             \o filter_each(Tail(json_array), filter)
filter_arrays(json_map, filter) ==
    IF json_map = <<>> THEN <<>>
    ELSE (IF Head(json_map).v.t = "array"
          THEN filter_findmnt(Head(json_map).v, filter)
          ELSE <<>>)
             \o filter_arrays(Tail(json_map), filter)
filter_findmnt(json_val, filter) ==
    (IF json_val.t = "array"
     THEN filter_each(json_val.items, filter)
     ELSE <<>>)
    \o
    (IF json_val.t = "object"
     THEN (IF /\ HasKey(json_val.fields, filter.key)
              /\ FindmntFilter_eq(filter, Get(json_val.fields, filter.key))
           THEN <<jsonmap_to_hashmap(json_val.fields)>>
           ELSE <<>>)
          \o filter_arrays(json_val.fields, filter)
     ELSE <<>>)

\* findmnt: out is what running the findmnt utility gives, its JSON output
\* when it ran, exited 0 and printed JSON.
findmnt(out, params) ==
    IF out.ok THEN Ok(filter_findmnt(out.json, params))
    ELSE Err("DeviceError")

NoString == [some |-> FALSE, s |-> <<>>]
Some(s) == [some |-> TRUE, s |-> s]

\* findmnt_get_devicepath
findmnt_get_devicepath(out, mount_path) ==
    LET r == findmnt(out, FindmntFilter(TARGET_KEY, mount_path)) IN
    IF r.tag # "Ok" THEN r
    ELSE IF Len(r.val) = 0 THEN Ok(NoString)
    ELSE IF Len(r.val) = 1
         THEN IF SOURCE_KEY \in DOMAIN r.val[1]
              THEN Ok(Some(r.val[1][SOURCE_KEY]))
              ELSE Err("DeviceError")
    ELSE Err("DeviceError")

\* struct DeviceMount
DeviceMount(mount_path, fstype) ==
    [mount_path |-> mount_path, fstype |-> fstype]

\* The loop of findmnt_get_mountpaths over the results.
RECURSIVE mountpaths_of(_)
mountpaths_of(results) ==
    IF results = <<>> THEN <<>>
    ELSE LET entry == Head(results) IN
         (IF TARGET_KEY \in DOMAIN entry
          THEN IF FSTYPE_KEY \in DOMAIN entry
               THEN <<DeviceMount(entry[TARGET_KEY], entry[FSTYPE_KEY])>>
               ELSE <<DeviceMount(entry[TARGET_KEY], <<"unspecified">>)>>
          ELSE <<>>)
         \o mountpaths_of(Tail(results))

\* findmnt_get_mountpaths
findmnt_get_mountpaths(out, device_path) ==
    LET r == findmnt(out, FindmntFilter(SOURCE_KEY, device_path)) IN
    IF r.tag # "Ok" THEN r ELSE Ok(mountpaths_of(r.val))

\* Volume ids: one that is a UUID and one that is not.
VolumeIds == {"uuid", "not-a-uuid"}
\* Uuid::parse_str succeeds
parse_str(volume_id) == volume_id = "uuid"

\* What the environment answers a call of the service: Device::lookup
\* (reg), mount::find_mount (mnt) and the run of the fsfreeze utility (run).
\* An answer that was not asked for is Unused.
Unused == [tag |-> "Unused", s |-> <<>>]
Answer(tag, s) == [tag |-> tag, s |-> s]
NoAnswers == [reg |-> Unused, mnt |-> Unused, run |-> Unused, probe |-> FALSE]

FSFREEZE == "fsfreeze"

\* The outcome of a service call: its result, the answers it asked for, and
\* the runs of the fsfreeze utility with their arguments.
Outcome(ret, asked, runs) == [ret |-> ret, asked |-> asked, runs |-> runs]

\* fsfreeze
fsfreeze(out, volume_id, freeze_op, reg, mnt, run) ==
    IF ~parse_str(volume_id)
    THEN Outcome(Err("InvalidVolumeId"), NoAnswers, <<>>)
    ELSE LET a1 == [NoAnswers EXCEPT !.reg = reg] IN
    IF reg.tag = "Err" THEN Outcome(Err("InternalFailure"), a1, <<>>)
    ELSE IF reg.tag = "None" THEN Outcome(Err("VolumeNotFound"), a1, <<>>)
    ELSE LET device_path == reg.s
             a2 == [a1 EXCEPT !.mnt = mnt]
         IN
    IF mnt.tag = "Some"
    THEN LET a3 == [a2 EXCEPT !.run = run]
             runs == <<[cmd |-> FSFREEZE, args |-> <<<<freeze_op>>, mnt.s>>]>>
         IN IF run.tag = "SpawnFailed" THEN Outcome(Err("IOError"), a3, runs)
            ELSE IF run.tag = "Exit0" THEN Outcome(Ok(<<>>), a3, runs)
            ELSE IF run.tag = "Exit1"
                 THEN Outcome(Err("FsfreezeFailed"), a3, runs)
            ELSE Outcome(Panic, a3, runs)
    ELSE LET mountpaths == findmnt_get_mountpaths(out, device_path)
             a3 == [a2 EXCEPT !.probe = TRUE]
         IN IF mountpaths.tag # "Ok"
            THEN Outcome(Err("InternalFailure"), a3, <<>>)
            ELSE IF Len(mountpaths.val) # 0
                 THEN Outcome(Err("BlockDeviceMount"), a3, <<>>)
            ELSE Outcome(Err("VolumeNotFound"), a3, <<>>)

\* freeze_volume, unfreeze_volume
freeze_volume(out, volume_id, reg, mnt, run) ==
    fsfreeze(out, volume_id, "--freeze", reg, mnt, run)
unfreeze_volume(out, volume_id, reg, mnt, run) ==
    fsfreeze(out, volume_id, "--unfreeze", reg, mnt, run)

\* find_volume taking the first record's fstype for all.
find_volume_first_only(out, volume_id, reg) ==
    IF ~parse_str(volume_id)
    THEN Outcome(Err("InvalidVolumeId"), NoAnswers, <<>>)
    ELSE LET a1 == [NoAnswers EXCEPT !.reg = reg] IN
    IF reg.tag = "Err" THEN Outcome(Err("InternalFailure"), a1, <<>>)
    ELSE IF reg.tag = "None" THEN Outcome(Err("VolumeNotFound"), a1, <<>>)
    ELSE LET mountpaths == findmnt_get_mountpaths(out, reg.s)
             a2 == [a1 EXCEPT !.probe = TRUE]
         IN
    IF mountpaths.tag # "Ok" THEN Outcome(Err("InternalFailure"), a2, <<>>)
    ELSE IF Len(mountpaths.val) = 0
    THEN Outcome(Err("VolumeNotFound"), a2, <<>>)
    ELSE IF mountpaths.val[1].fstype = <<"devtmpfs">>
         THEN Outcome(Ok("RawBlock"), a2, <<>>)
         ELSE Outcome(Ok("FileSystem"), a2, <<>>)

\* find_volume
find_volume(out, volume_id, reg) ==
    IF ~parse_str(volume_id)
    THEN Outcome(Err("InvalidVolumeId"), NoAnswers, <<>>)
    ELSE LET a1 == [NoAnswers EXCEPT !.reg = reg] IN
    IF reg.tag = "Err" THEN Outcome(Err("InternalFailure"), a1, <<>>)
    ELSE IF reg.tag = "None" THEN Outcome(Err("VolumeNotFound"), a1, <<>>)
    ELSE LET mountpaths == findmnt_get_mountpaths(out, reg.s)
             a2 == [a1 EXCEPT !.probe = TRUE]
         IN
    IF mountpaths.tag # "Ok" THEN Outcome(Err("InternalFailure"), a2, <<>>)
    ELSE IF Len(mountpaths.val) = 0
    THEN Outcome(Err("VolumeNotFound"), a2, <<>>)
    ELSE LET fstype == mountpaths.val[1].fstype IN
         IF \E i \in 1..Len(mountpaths.val) :
                fstype # mountpaths.val[i].fstype
         THEN Outcome(Err("InconsistentMountFs"), a2, <<>>)
         ELSE IF fstype = <<"devtmpfs">>
              THEN Outcome(Ok("RawBlock"), a2, <<>>)
              ELSE Outcome(Ok("FileSystem"), a2, <<>>)

\* No call of the plugin made; no mounts reported.
NoCall == [op |-> None, value |-> <<>>, volume_id |-> None,
           out |-> Outcome(Err(None), NoAnswers, <<>>)]
NoMounts == [ok |-> TRUE, json |-> JObj(<<>>)]

\* The tasks calling the service, one call each; a task that has not
\* called yet, and one whose call has returned.
Tasks == {"t1", "t2"}
Task(pc, op, value, volume_id, reg, mnt) ==
    [pc |-> pc, op |-> op, value |-> value, volume_id |-> volume_id,
     reg |-> reg, mnt |-> mnt]
NewTask == Task("new", None, <<>>, None, Unused, Unused)
DoneTask == Task("done", None, <<>>, None, Unused, Unused)

----------------------------------------------------------------------------
\* The rebuild registry

\* Nexuses a rebuild job can belong to, and the progress it reports (a
\* percentage in the program, scaled down here).
Nexuses == {parent(c) : c \in Children}
Progress == 0..MaxProgress
RebuildJob == [name : {BdevName}, nexus : Nexuses, progress : Progress]
\* What the registry can hold: one job at most under a name.
Registries == {{}} \cup {{j} : j \in RebuildJob}

\* RebuildJob::lookup(name)
lookup(reg, n) ==
    IF \E j \in reg : j.name = n
    THEN Ok(CHOOSE j \in reg : j.name = n)
    ELSE Err("JobNotFound")

\* rebuilding judging by any Faulted state.
rebuilding_any_fault(reg, c, ch) ==
    IF lookup(reg, name(c)).tag = "Ok" THEN IsFaulted(status(ch)) ELSE FALSE

\* NexusChild::rebuilding
rebuilding(reg, c, ch) ==
    IF lookup(reg, name(c)).tag = "Ok"
    THEN status(ch) = Faulted("OutOfSync")
    ELSE FALSE

\* get_rebuild_job without the assertion on the job's nexus.
get_rebuild_job_unchecked(reg, c) == lookup(reg, name(c))

\* NexusChild::get_rebuild_job: Ok(job), Err for no job, or a panic
get_rebuild_job(reg, c) ==
    LET job == lookup(reg, name(c)) IN
    IF job.tag # "Ok" THEN Err(None)
    ELSE IF job.val.nexus # parent(c) THEN Panic
    ELSE job

\* NexusChild::get_rebuild_progress
get_rebuild_progress(reg, c) ==
    LET j == get_rebuild_job(reg, c) IN
    IF j.tag = "Panic" THEN Panic
    ELSE IF j.tag = "Ok" THEN Ok(j.val.progress)
    ELSE Ok(-1)

----------------------------------------------------------------------------
\* The state machine

\* The calls open(size); close(); open(size) on one child, one right after
\* the other, and the status() seen after each: phase counts the calls of the
\* sequence made so far.  The first call counts when it returned Ok; the
\* third when the device is there, is big enough, and its open is let to
\* succeed.
NoTrip == [phase |-> 0, c |-> None, size |-> 0, obs |-> <<>>]
\* The history trip is not kept (the specification of two children, whose
\* properties do not read it).
Untracked == [phase |-> -1, c |-> None, size |-> 0, obs |-> <<>>]
\* The history synced, at the start and when it is not kept (it is read by
\* the properties of SpecSynced only).
AllSynced == [c \in Children |-> TRUE]
NotKept == <<>>
RoundTrip(w, op, c, arg) ==
    LET seen == status(w.children[c]) IN
    IF trip = Untracked THEN trip
    ELSE IF /\ op = "open" /\ trip.phase = 2 /\ trip.c = c /\ trip.size = arg[1]
       /\ arg[2] /\ arg[3] /\ dev.exists /\ dev.size >= arg[1]
    THEN [trip EXCEPT !.phase = 3, !.obs = Append(@, seen)]
    ELSE IF op = "open" /\ w.ret.tag = "Ok"
    THEN [phase |-> 1, c |-> c, size |-> arg[1], obs |-> <<seen>>]
    ELSE IF op = "close" /\ trip.phase = 1 /\ trip.c = c
    THEN [trip EXCEPT !.phase = 2, !.obs = Append(@, seen)]
    ELSE NoTrip

\* The device as a call reads it through a child's Bdev: the device, or
\* for a destroyed one whatever the read gives, each call anew.  open reads
\* the size (any number: below, at and above every parent size), _close
\* the claim token (null or not: the one the device had, when it had one).
SizeReads ==
    IF dev.exists THEN {dev}
    ELSE {[dev EXCEPT !.size = size] : size \in 0..(MaxSize + 1)}
ClaimReads ==
    IF dev.exists THEN {dev}
    ELSE {[dev EXCEPT !.claim = claim] :
              claim \in {None, IF dev.claim = None THEN "junk" ELSE dev.claim}}
Reading(r) == [World EXCEPT !.dev = r]

\* One child, just constructed, with or without a device name.
OneChild ==
    /\ live = {"c1"}
    /\ children \in [Children -> {new(None), new(BdevName)}]
    /\ \A c \in Children \ live : children[c] = new(None)
    /\ dev = [size |-> MaxSize, claim |-> None, exists |-> TRUE]
    /\ cfg \in [enable_err_store : BOOLEAN]
    /\ panicked = FALSE
    /\ last = NoOp
    /\ destroying = [c \in Children |-> 0]
    /\ mtab = NoMounts
    /\ csi = NoCall
    /\ tasks = [t \in Tasks |-> NewTask]

Init ==
    /\ OneChild
    /\ trip = NoTrip
    /\ synced = NotKept

\* An operation op on child c with input arg, reading the device as r,
\* took Reading(r) to w.  What it wrote to freed memory is not kept.
CommitRead(w, r, op, c, arg) ==
    /\ ~panicked
    /\ trip' = RoundTrip(w, op, c, arg)
    /\ synced' =
          IF synced = NotKept THEN synced
          ELSE [synced EXCEPT
                  ![c] = @ /\ status(w.children[c]) # Faulted("OutOfSync")]
    /\ destroying' =
          IF op = "destroy" /\ w.ret = Pending
          THEN [destroying EXCEPT ![c] = @ + 1]
          ELSE IF op = "destroy_done"
          THEN [destroying EXCEPT ![c] = @ - 1]
          ELSE destroying
    /\ live' = live
    /\ children' = w.children
    /\ dev' = IF dev.exists THEN w.dev ELSE dev
    /\ cfg' = w.cfg
    /\ UNCHANGED csiVars
    /\ panicked' = (w.ret.tag = "Panic")
    /\ last' = [op |-> op, c |-> c, arg |-> arg, ret |-> w.ret,
                pre |-> children[c], preDev |-> r, postDev |-> w.dev,
                preJobs |-> IF op \in {"rebuilding", "get_rebuild_progress"}
                            THEN arg[1] ELSE {},
                preCfg |-> cfg,
                log |-> w.log]

\* An operation that does not read the device.
Commit(w, op, c, arg) == CommitRead(w, dev, op, c, arg)

OpenCall(c) ==
    \E parent_size \in 0..(MaxSize + 1), ok \in BOOLEAN, hdl \in BOOLEAN,
       r \in SizeReads :
        CommitRead(open(Reading(r), c, parent_size, ok, hdl), r,
                   "open", c, <<parent_size, ok, hdl>>)

OnlineCall(c) ==
    \E parent_size \in 0..(MaxSize + 1), ok \in BOOLEAN, hdl \in BOOLEAN,
       r \in SizeReads :
        CommitRead(online(Reading(r), c, parent_size, ok, hdl), r,
                   "online", c, <<parent_size, ok, hdl>>)

CloseCall(c) ==
    \E r \in ClaimReads : CommitRead(close(Reading(r), c), r, "close", c, <<>>)

OfflineCall(c) ==
    \E r \in ClaimReads :
        CommitRead(offline(Reading(r), c), r, "offline", c, <<>>)

FaultCall(c) ==
    \E reason \in Reason \cup {None}, r \in ClaimReads :
        CommitRead(fault(Reading(r), c, reason), r, "fault", c, <<reason>>)

OutOfSyncCall(c) ==
    \E flag \in BOOLEAN, r \in ClaimReads :
        CommitRead(out_of_sync(Reading(r), c, flag), r,
                   "out_of_sync", c, <<flag>>)

\* The calls of destroy suspended at their await.
RECURSIVE Suspended(_)
Suspended(S) ==
    IF S = {} THEN 0
    ELSE LET c == CHOOSE x \in S : TRUE
         IN destroying[c] + Suspended(S \ {c})

\* destroy is called and runs up to its await (or to its end); the calls
\* suspended at a time are capped.
DestroyCall(c) ==
    /\ destroy(World, c).ret = Pending => Suspended(Children) < MaxPending
    /\ Commit(destroy(World, c), "destroy", c, <<>>)

\* The destructor has run: a suspended destroy of c is resumed and returns.
DestroyDone(c) ==
    /\ destroying[c] > 0
    /\ \E ok \in BOOLEAN :
          Commit(destroy_done(World, c, ok), "destroy_done", c, <<ok>>)

GetDevCall(c) ==
    Commit(Return(World, get_dev(children[c])), "get_dev", c, <<>>)

\* The runtime configuration is changed from outside.
ConfigChange ==
    /\ ~panicked
    /\ cfg' = [cfg EXCEPT !.enable_err_store = ~@]
    /\ UNCHANGED <<live, children, dev, panicked, last, trip, synced,
                   destroying, csiVars>>

\* The registry is the rebuild module's: what a lookup finds in it is the
\* module's answer at the time of the call.
RebuildingCall(c) ==
    \E reg \in Registries :
        Commit(Return(World, Ok(rebuilding(reg, c, children[c]))),
               "rebuilding", c, <<reg>>)

GetRebuildProgressCall(c) ==
    \E reg \in Registries :
        Commit(Return(World, get_rebuild_progress(reg, c)),
               "get_rebuild_progress", c, <<reg>>)

Next ==
    \/ \E c \in live : OpenCall(c)
    \/ \E c \in live : OnlineCall(c)
    \/ \E c \in live : CloseCall(c)
    \/ \E c \in live : OfflineCall(c)
    \/ \E c \in live : FaultCall(c)
    \/ \E c \in live : OutOfSyncCall(c)
    \/ \E c \in live : DestroyCall(c)
    \/ \E c \in live : DestroyDone(c)
    \/ \E c \in live : GetDevCall(c)
    \/ \E c \in live : RebuildingCall(c)
    \/ \E c \in live : GetRebuildProgressCall(c)
    \/ ConfigChange

Spec == Init /\ [][Next]_vars

\* One child, with the history of its Faulted(OutOfSync) states.
InitSynced ==
    /\ OneChild
    /\ trip = Untracked
    /\ synced = AllSynced

SpecSynced == InitSynced /\ [][Next]_vars

\* Two children of two nexuses created over the same device.
InitPair ==
    /\ live = Children
    /\ children = [c \in Children |-> new(BdevName)]
    /\ dev = [size |-> MaxSize, claim |-> None, exists |-> TRUE]
    /\ cfg = [enable_err_store |-> FALSE]
    /\ panicked = FALSE
    /\ last = NoOp
    /\ trip = Untracked
    /\ synced = NotKept
    /\ destroying = [c \in Children |-> 0]
    /\ mtab = NoMounts
    /\ csi = NoCall
    /\ tasks = [t \in Tasks |-> NewTask]

\* Every operation of the crate on either child (fault, private to the
\* child, is reached through out_of_sync); the configuration is left as it
\* is and the rebuild registry is not asked.
NextPair ==
    \/ \E c \in live : OpenCall(c)
    \/ \E c \in live : OnlineCall(c)
    \/ \E c \in live : CloseCall(c)
    \/ \E c \in live : OfflineCall(c)
    \/ \E c \in live : OutOfSyncCall(c)
    \/ \E c \in live : DestroyCall(c)
    \/ \E c \in live : DestroyDone(c)
    \/ \E c \in live : GetDevCall(c)

SpecPair == InitPair /\ [][NextPair]_vars

----------------------------------------------------------------------------
\* The CSI node plugin as a state machine: the output of findmnt is drawn
\* at the start.  The probes of findmnt run to their end in one step; the
\* calls of the service are futures, which give way to the other task at
\* Device::lookup and at the run of the fsfreeze utility.

\* A field of a findmnt record that is left out.
Absent == [t |-> "absent", s |-> <<>>, items |-> <<>>, fields |-> <<>>]
Field(key, v) == IF v.t = "absent" THEN <<>> ELSE <<[k |-> key, v |-> v]>>

\* One record of the findmnt output, "children" only when it has some.
Entry(source, target, fstype, kids) ==
    JObj((IF kids = <<>> THEN <<>>
          ELSE <<[k |-> <<"children">>, v |-> JArr(kids)]>>)
         \o Field(FSTYPE_KEY, fstype)
         \o Field(SOURCE_KEY, source)
         \o Field(TARGET_KEY, target))
Root(entries) ==
    [ok |-> TRUE,
     json |-> JObj(<<[k |-> <<"filesystems">>, v |-> JArr(entries)]>>)]

DevX == <<"/", "dev", "/", "x">>
DevicePaths == {DevX, <<"/", "x">>}
MountPaths == {<<"/", "x">>, <<"/", "x", "/", "x">>}

\* A record with the source s, mounted at one place.
WideEntry(s) == Entry(JStr(s), JStr(<<"/", "x">>), JStr(<<"ext4">>), <<>>)

\* Records of a few sources, with and without target and fstype.
Sources == {JStr(DevX), JStr(<<"dev", "[", "/", "x", "]">>),
            JStr(<<"proc">>), JNum}
Targets == {JStr(<<"/", "x">>), Absent}
Fstypes == {JStr(<<"ext4">>), JStr(<<"devtmpfs">>), Absent}
Entries ==
    {Entry(s, t, f, <<>>) : s \in Sources, t \in Targets, f \in Fstypes}

\* The first record with the others as its children.
Nested(es) ==
    <<JObj(<<[k |-> <<"children">>, v |-> JArr(Tail(es))]>>
           \o Head(es).fields)>>

\* The outputs of findmnt: up to MaxEntries records side by side
\* (FlatDoc), the first with the others as its children (NestedDoc), or
\* one record with any string of up to MaxLen tokens as its source
\* (WideDoc).
FlatDoc(out) ==
    \E n \in 0..MaxEntries : \E es \in [1..n -> Entries] : out = Root(es)
NestedDoc(out) ==
    \E n \in 2..MaxEntries : \E es \in [1..n -> Entries] :
        out = Root(Nested(es))
WideDoc(out) ==
    \E n \in 0..MaxLen : \E s \in [1..n -> Tokens] :
        out = Root(<<WideEntry(s)>>)
FindmntFailed == [ok |-> FALSE, json |-> JObj(<<>>)]

\* The outputs of findmnt the service is called with: up to MaxEntries
\* records of the one device, with and without target and fstype.
MountEntries ==
    {Entry(JStr(DevX), t, f, <<>>) : t \in Targets, f \in Fstypes}
MountDoc(out) ==
    \E n \in 0..MaxEntries : \E es \in [1..n -> MountEntries] :
        out = Root(es)

\* No child object exists.
NoChild ==
    /\ live = {}
    /\ children = [c \in Children |-> new(None)]
    /\ dev = [size |-> 1, claim |-> None, exists |-> TRUE]
    /\ cfg = [enable_err_store |-> FALSE]
    /\ panicked = FALSE
    /\ last = NoOp
    /\ trip = NoTrip
    /\ synced = NotKept
    /\ destroying = [c \in Children |-> 0]

InitFindmnt ==
    /\ NoChild
    /\ \/ FlatDoc(mtab)
       \/ NestedDoc(mtab)
       \/ WideDoc(mtab)
       \/ mtab = FindmntFailed
    /\ csi = NoCall
    /\ tasks = [t \in Tasks |-> NewTask]

InitCsi ==
    /\ NoChild
    /\ \/ MountDoc(mtab)
       \/ mtab = FindmntFailed
    /\ csi = NoCall
    /\ tasks = [t \in Tasks |-> NewTask]

GetDevicePathCall ==
    /\ csi = NoCall
    /\ \E mount_path \in MountPaths :
        /\ csi' = [op |-> "findmnt_get_devicepath", value |-> mount_path,
                   volume_id |-> None,
                   out |-> Outcome(findmnt_get_devicepath(mtab, mount_path),
                                   NoAnswers, <<>>)]
        /\ UNCHANGED <<mtab, tasks, childVars>>

GetMountPathsCall ==
    /\ csi = NoCall
    /\ \E device_path \in DevicePaths :
        /\ csi' = [op |-> "findmnt_get_mountpaths", value |-> device_path,
                   volume_id |-> None,
                   out |-> Outcome(findmnt_get_mountpaths(mtab, device_path),
                                   NoAnswers, <<>>)]
        /\ UNCHANGED <<mtab, tasks, childVars>>

\* The answers the environment can give.
RegAnswers ==
    {Answer("Err", <<>>), Answer("None", <<>>)}
        \cup {Answer("Some", d) : d \in DevicePaths}
MntAnswers == {Answer("None", <<>>)} \cup {Answer("Some", p) : p \in MountPaths}
SpawnFailed == Answer("SpawnFailed", <<>>)
ExitAnswers == {Answer(t, <<>>) : t \in {"Exit0", "Exit1", "Exit1NotUtf8"}}

\* The call of task t gives way: the task waits at pc.
Suspend(t, pc, op, value, volume_id, reg, mnt) ==
    /\ tasks' = [tasks EXCEPT ![t] = Task(pc, op, value, volume_id, reg, mnt)]
    /\ UNCHANGED <<mtab, csi, childVars>>

\* The call of task t returns out.
Finish(t, op, value, volume_id, out) ==
    /\ tasks' = [tasks EXCEPT ![t] = DoneTask]
    /\ csi' = [op |-> op, value |-> value, volume_id |-> volume_id,
               out |-> out]
    /\ UNCHANGED <<mtab, childVars>>

\* A call runs up to Device::lookup(..).await; with a volume id that is
\* no UUID it returns before.
FreezeVolumeCall(t) ==
    /\ tasks[t].pc = "new"
    /\ \E volume_id \in VolumeIds :
        IF parse_str(volume_id)
        THEN Suspend(t, "lookup", "freeze_volume", <<"--freeze">>,
                     volume_id, Unused, Unused)
        ELSE Finish(t, "freeze_volume", <<"--freeze">>, volume_id,
                    freeze_volume(mtab, volume_id, Unused, Unused, Unused))

UnfreezeVolumeCall(t) ==
    /\ tasks[t].pc = "new"
    /\ \E volume_id \in VolumeIds :
        IF parse_str(volume_id)
        THEN Suspend(t, "lookup", "unfreeze_volume", <<"--unfreeze">>,
                     volume_id, Unused, Unused)
        ELSE Finish(t, "unfreeze_volume", <<"--unfreeze">>, volume_id,
                    unfreeze_volume(mtab, volume_id, Unused, Unused, Unused))

FindVolumeCall(t) ==
    /\ tasks[t].pc = "new"
    /\ \E volume_id \in VolumeIds :
        IF parse_str(volume_id)
        THEN Suspend(t, "lookup", "find_volume", <<>>, volume_id,
                     Unused, Unused)
        ELSE Finish(t, "find_volume", <<>>, volume_id,
                    find_volume(mtab, volume_id, Unused))

\* Device::lookup answers a call of fsfreeze: with a device that is
\* mounted and the fsfreeze utility spawned the call runs up to
\* Command::output().await, otherwise (the spawn failing included) to its
\* end.
FsfreezeLookupDone(t) ==
    /\ tasks[t].pc = "lookup"
    /\ tasks[t].op \in {"freeze_volume", "unfreeze_volume"}
    /\ \E reg \in RegAnswers, mnt \in MntAnswers, spawned \in BOOLEAN :
        LET k == tasks[t] IN
        IF reg.tag = "Some" /\ mnt.tag = "Some" /\ spawned
        THEN Suspend(t, "output", k.op, k.value, k.volume_id, reg, mnt)
        ELSE Finish(t, k.op, k.value, k.volume_id,
                    fsfreeze(mtab, k.volume_id, k.value[1], reg, mnt,
                             SpawnFailed))

\* The fsfreeze utility has run: the call returns.
FsfreezeOutputDone(t) ==
    /\ tasks[t].pc = "output"
    /\ \E run \in ExitAnswers :
        LET k == tasks[t] IN
        Finish(t, k.op, k.value, k.volume_id,
               fsfreeze(mtab, k.volume_id, k.value[1], k.reg, k.mnt, run))

\* Device::lookup answers a call of find_volume, which runs to its end.
FindVolumeLookupDone(t) ==
    /\ tasks[t].pc = "lookup"
    /\ tasks[t].op = "find_volume"
    /\ \E reg \in RegAnswers :
        LET k == tasks[t] IN
        Finish(t, k.op, k.value, k.volume_id,
               find_volume(mtab, k.volume_id, reg))

NextFindmnt ==
    \/ GetDevicePathCall
    \/ GetMountPathsCall

SpecFindmnt == InitFindmnt /\ [][NextFindmnt]_vars

NextCsi ==
    \/ \E t \in Tasks : FreezeVolumeCall(t)
    \/ \E t \in Tasks : UnfreezeVolumeCall(t)
    \/ \E t \in Tasks : FindVolumeCall(t)
    \/ \E t \in Tasks : FsfreezeLookupDone(t)
    \/ \E t \in Tasks : FsfreezeOutputDone(t)
    \/ \E t \in Tasks : FindVolumeLookupDone(t)

SpecCsi == InitCsi /\ [][NextCsi]_vars

----------------------------------------------------------------------------
\* Properties

HasAll(ch) == ch.bdev # None /\ ch.desc # NoDesc /\ ch.bdev_handle # NoDesc
Released(ch) == ch.desc = NoDesc /\ ch.bdev_handle = NoDesc
OpenOps == {"open", "online"}
CloseOps == {"close", "offline"}
FaultOps == {"fault", "out_of_sync"}

\* C1: in every reachable state a child is Open if and only if its bdev,
\* desc and bdev_handle are all present (so the descriptor and handle are
\* never held in ConfigInvalid, Init, Closed or Faulted).
C1_OpenIffResources ==
    \A c \in live : status(children[c]) = StateOpen <=> HasAll(children[c])

\* C2: in every reachable state an Open child has bdev, desc and bdev_handle,
\* and get_dev returns Ok exactly when the child is Open and ChildClosed
\* otherwise; it never returns ChildInvalid.
C2_OpenHasResources ==
    /\ \A c \in live :
          /\ status(children[c]) = StateOpen => HasAll(children[c])
          /\ get_dev(children[c]).tag =
                IF status(children[c]) = StateOpen THEN "Ok" ELSE "ChildClosed"
    /\ last.op = "get_dev" =>
          /\ last.ret.tag \in {"Ok", "ChildClosed"}
          /\ last.ret.tag = "Ok" <=> status(children[last.c]) = StateOpen

\* C2 witness: get_dev was called on an Open child and returned Ok.
C2_Witness ==
    /\ last.op = "get_dev"
    /\ last.ret.tag = "Ok"
    /\ status(children[last.c]) = StateOpen

\* C3: in every reachable state a Faulted child, whatever the reason and
\* however it got there, holds neither descriptor nor I/O handle.
C3_FaultedReleased ==
    \A c \in live : IsFaulted(status(children[c])) => Released(children[c])

\* The World the last operation left.
PostWorld == [World EXCEPT !.dev = last.postDev]

\* C4: close returns Closed from any state and leaves the child Closed with
\* desc and bdev_handle absent and bdev unchanged; a second close right after
\* it returns the same, changes neither the child nor the device, and
\* releases no claim.
C4_CloseIdempotent ==
    last.op = "close" =>
        LET c == last.c
            again == close(PostWorld, c)
        IN /\ last.ret = Ok(StateClosed)
           /\ status(children[c]) = StateClosed
           /\ Released(children[c])
           /\ children[c].bdev = last.pre.bdev
           /\ again.ret = Ok(StateClosed)
           /\ again.children = children
           /\ again.dev = last.postDev
           /\ Count(again.log, "release_claim") = 0

\* C4 witness: an Open child holding descriptor, handle and claim was closed.
C4_Witness ==
    /\ last.op = "close"
    /\ last.pre.state = StateOpen
    /\ HasAll(last.pre)
    /\ Count(last.log, "release_claim") = 1

\* The transitions the state machine lists.
LegalTransition(op, from, to) ==
    \/ op \in OpenOps /\ from \in {StateInit, StateClosed}
         /\ to \in {StateOpen, StateConfigInvalid, Faulted("CantOpen")}
    \/ op \in CloseOps /\ from = StateOpen /\ to = StateClosed
    \/ op \in FaultOps /\ from = StateOpen /\ IsFaulted(to)
    \/ op = "destroy" /\ from = StateClosed

\* C5: every change of a child's state is one of the listed transitions: open
\* from Init or Closed to Open, ConfigInvalid or Faulted(CantOpen); close
\* from Open to Closed; fault from Open to Faulted; destroy from Closed.
C5_OnlyLegalTransitions ==
    (last.op # None /\ status(children[last.c]) # last.pre.state) =>
        LegalTransition(last.op, last.pre.state, status(children[last.c]))

\* C6: open (and online) on a Faulted child, for every reason and parent
\* size, returns ChildFaulted and changes nothing: no device open, no claim,
\* no save.
C6_FaultedOpenRejected ==
    (last.op \in OpenOps /\ IsFaulted(last.pre.state)) =>
        /\ last.ret.tag = "ChildFaulted"
        /\ children[last.c] = last.pre
        /\ last.postDev = last.preDev
        /\ last.log = <<>>

\* C6 witness: online was called on an out-of-sync child.
C6_Witness ==
    /\ last.op = "online"
    /\ last.pre.state = Faulted("OutOfSync")
    /\ last.ret.tag = "ChildFaulted"

\* C7: an open on a non-faulted child with a device ends in Open only if
\* the device size is >= parent_size.  With parent_size <= size the size
\* check passes and the device open is attempted (and from Init or Closed,
\* with the device free, its open succeeding and the I/O handle obtained,
\* the child ends Open); with
\* parent_size > size open returns ChildTooSmall with the two sizes compared,
\* the state becomes ConfigInvalid, and the device is neither opened nor
\* claimed.
C7_SizeRule ==
    (last.op \in OpenOps /\ ~IsFaulted(last.pre.state) /\ last.pre.bdev # None) =>
        LET c == last.c
            parent_size == last.arg[1]
            child_size == last.preDev.size
        IN /\ status(children[c]) = StateOpen => child_size >= parent_size
           /\ parent_size <= child_size =>
                 /\ last.ret.tag # "ChildTooSmall"
                 /\ Count(last.log, "open_by_name") = 1
                 /\ (/\ last.arg[2]
                     /\ last.arg[3]
                     /\ last.preDev.exists
                     /\ last.preDev.claim = None) =>
                        /\ status(children[c]) = StateOpen
                        /\ last.ret.tag = "Ok"
           /\ parent_size > child_size =>
                 /\ last.ret = ChildTooSmall(child_size, parent_size)
                 /\ status(children[c]) = StateConfigInvalid
                 /\ Count(last.log, "open_by_name") = 0
                 /\ last.postDev = last.preDev
                 /\ children[c].desc = last.pre.desc
                 /\ children[c].bdev_handle = last.pre.bdev_handle

\* C7 witness: open with parent_size = size + 1 on a new child was refused.
C7_Witness ==
    /\ last.op = "open"
    /\ last.pre.state = StateInit
    /\ last.preDev.exists
    /\ last.arg[1] = last.preDev.size + 1
    /\ last.ret.tag = "ChildTooSmall"
    /\ status(children[last.c]) = StateConfigInvalid

\* C8: destroy in a state other than Closed is refused (the assertion
\* fails): the destructor is not requested and child and device are
\* unchanged.  In Closed the destructor is requested iff bdev is present,
\* and without a bdev destroy succeeds without requesting it.
C8_DestroyNeedsClosed ==
    last.op = "destroy" =>
        IF last.pre.state # StateClosed
        THEN /\ last.ret.tag = "Panic"
             /\ Count(last.log, "bdev_destroy") = 0
             /\ children[last.c] = last.pre
             /\ last.postDev = last.preDev
        ELSE /\ last.ret.tag # "Panic"
             /\ Count(last.log, "bdev_destroy") = 1 <=> last.pre.bdev # None
             /\ last.pre.bdev = None => (last.log = <<>> /\ last.ret.tag = "Ok")

\* C8 witness: destroy was called on an Open child and refused.
C8_Witness ==
    /\ last.op = "destroy"
    /\ last.pre.state = StateOpen
    /\ HasAll(last.pre)
    /\ last.ret.tag = "Panic"

\* C9: every state mutation is followed, before the operation returns, by a
\* save request, the mutations to ConfigInvalid and Faulted(CantOpen) inside
\* open included.
C9_EveryMutationSaved ==
    \A i \in 1..Len(last.log) :
        (last.log[i].ev = "set_state" /\ last.log[i].seen.state # last.pre.state)
            => \E j \in (i + 1)..Len(last.log) : last.log[j].ev = "save"

\* C10: whenever open, close or fault invoke the persistence hook, the state
\* has been set before, and the hook sees the child's final state and
\* resources (and the device's final claim): nothing changes after it.
C10_SaveAfterTransition ==
    (last.op \in OpenOps \cup CloseOps \cup FaultOps) =>
        \A i \in 1..Len(last.log) :
            last.log[i].ev = "save" =>
                /\ last.log[i].seen = children[last.c]
                /\ last.log[i].claim = last.postDev.claim
                /\ \E j \in 1..(i - 1) : last.log[j].ev = "set_state"

\* C10 witness: close of an Open child invoked the hook.
C10_Witness ==
    /\ last.op = "close"
    /\ last.pre.state = StateOpen
    /\ HasAll(last.pre)
    /\ Count(last.log, "save") = 1

\* C11: when open(size), close(), open(size) are called one after the other
\* on a child whose device is at least size, with both device opens
\* succeeding, the statuses seen are Open, Closed, Open, and when the second
\* open opens the device the first claim is released and the first
\* descriptor and handle are dropped.
C11_RoundTrip ==
    trip.phase = 3 =>
        /\ trip.obs = <<StateOpen, StateClosed, StateOpen>>
        /\ last.preDev.claim = None
        /\ Released(last.pre)
        /\ \E i \in 1..Len(last.log) :
              /\ last.log[i].ev = "open_by_name"
              /\ last.log[i].claim = last.c
              /\ Released(last.log[i].seen)
        /\ last.ret.tag = "Ok"
        /\ HasAll(children[last.c])

\* C11 witness: the three calls were made and the child is Open again.
C11_Witness ==
    /\ trip.phase = 3
    /\ last.op = "open"
    /\ last.pre.state = StateClosed
    /\ status(children[last.c]) = StateOpen

\* C12: of two children created over the same device at most one is Open
\* at any time, and an open() of one while the other is Open and holds the
\* device fails with OpenChild and leaves the caller Faulted(CantOpen).
C12_OneHolder ==
    /\ Cardinality({c \in Children : status(children[c]) = StateOpen}) <= 1
    /\ \A c \in Children :
          (/\ last.op = "open" /\ last.c = c
           /\ ~IsFaulted(last.pre.state)
           /\ last.arg[1] <= last.preDev.size
           /\ \E o \in Children \ {c} :
                 /\ last.preDev.claim = o
                 /\ status(children[o]) = StateOpen)
          => /\ last.ret.tag = "OpenChild"
             /\ status(children[c]) = Faulted("CantOpen")

\* The job registered under the name of child c, if there is one.
Registered(reg, c) == lookup(reg, name(c)).tag = "Ok"
JobOf(reg, c) == lookup(reg, name(c)).val

\* C13 as stated: get_rebuild_progress returns -1 exactly when no job is
\* registered under the child's name, and returns the job's progress, without
\* aborting, whatever the nexus field of a registered job is.
C13_ProgressAnyNexus ==
    last.op = "get_rebuild_progress" =>
        /\ last.ret.tag = "Ok"
        /\ (last.ret.val = -1) <=> ~Registered(last.preJobs, last.c)
        /\ Registered(last.preJobs, last.c)
              => last.ret.val = JobOf(last.preJobs, last.c).progress

\* C13 amended: get_rebuild_progress returns -1 exactly when no job is
\* registered under the child's name; with a job registered whose nexus is
\* the child's parent it returns the job's progress; with a job registered
\* whose nexus is another one the call panics.
C13_ProgressOwnNexus ==
    last.op = "get_rebuild_progress" =>
        IF ~Registered(last.preJobs, last.c)
        THEN last.ret.tag = "Ok" /\ last.ret.val = -1
        ELSE IF JobOf(last.preJobs, last.c).nexus = parent(last.c)
        THEN /\ last.ret.tag = "Ok"
             /\ last.ret.val = JobOf(last.preJobs, last.c).progress
             /\ last.ret.val # -1
        ELSE last.ret.tag = "Panic"

\* C13 witness: the progress of a job of the child's own nexus, part done,
\* was returned.
C13_Witness ==
    /\ last.op = "get_rebuild_progress"
    /\ Registered(last.preJobs, last.c)
    /\ JobOf(last.preJobs, last.c).nexus = parent(last.c)
    /\ JobOf(last.preJobs, last.c).progress > 0
    /\ last.ret.tag = "Ok"
    /\ last.ret.val = JobOf(last.preJobs, last.c).progress

\* C14: rebuilding() is TRUE exactly when a job is registered under the
\* child's name and the child is Faulted(OutOfSync), the state
\* out_of_sync(true) leaves an opened child in; in every other state it is
\* FALSE whatever the registry holds.
C14_Rebuilding ==
    /\ \A c \in live, reg \in Registries :
          rebuilding(reg, c, children[c])
              <=> (/\ Registered(reg, c)
                   /\ children[c].state = Faulted("OutOfSync"))
    /\ last.op = "rebuilding" =>
          (last.ret.val
              <=> (Registered(last.preJobs, last.c)
                   /\ children[last.c].state = Faulted("OutOfSync")))
    /\ (last.op = "out_of_sync" /\ last.arg[1] /\ last.pre.state = StateOpen)
          => children[last.c].state = Faulted("OutOfSync")

\* C14 witness: rebuilding() answered TRUE.
C14_Witness ==
    /\ last.op = "rebuilding"
    /\ last.ret.val
    /\ Registered(last.preJobs, last.c)
    /\ children[last.c].state = Faulted("OutOfSync")

\* C18: open() on a child that is already Open, with the parent size within
\* the device size, does not open or claim the device again, keeps the
\* descriptor and the handle it has, stays Open and returns the child's
\* name; it ends neither Faulted(CantOpen) nor ConfigInvalid.
C18_OpenIdempotent ==
    (/\ last.op \in OpenOps
     /\ last.pre.state = StateOpen
     /\ last.arg[1] <= last.preDev.size)
    => /\ Count(last.log, "open_by_name") = 0
       /\ children[last.c].desc = last.pre.desc
       /\ children[last.c].bdev_handle = last.pre.bdev_handle
       /\ status(children[last.c]) = StateOpen
       /\ last.ret.tag = "Ok"

\* C19: open() on a child without bdev, in Init or Closed, returns
\* OpenWithoutBdev, leaves state, desc and bdev_handle as they were, and
\* does not abort.
C19_OpenWithoutBdev ==
    (/\ last.op \in OpenOps
     /\ last.pre.bdev = None
     /\ last.pre.state \in {StateInit, StateClosed})
    => /\ last.ret.tag = "OpenWithoutBdev"
       /\ children[last.c] = last.pre
       /\ ~panicked

\* The events ev1 of the log all come before the events ev2.
Before(log, ev1, ev2) ==
    \A i, j \in 1..Len(log) :
        (log[i].ev = ev1 /\ log[j].ev = ev2) => i < j

\* C20: close() and fault() release in this order: the module claim, only
\* if the bdev is present and the device is claimed; then the I/O handle;
\* then the descriptor, never while the handle is still held; and the state
\* is changed only after all three.
C20_ReleaseOrder ==
    (\/ last.op \in CloseOps
     \/ last.op = "fault"
     \/ last.op = "out_of_sync" /\ last.arg[1])
    => /\ Count(last.log, "release_claim")
            = (IF last.pre.bdev # None /\ last.preDev.claim # None
               THEN 1 ELSE 0)
       /\ Count(last.log, "drop_handle") = 1
       /\ Count(last.log, "drop_desc") = 1
       /\ Count(last.log, "set_state") = 1
       /\ Before(last.log, "release_claim", "drop_handle")
       /\ Before(last.log, "drop_handle", "drop_desc")
       /\ Before(last.log, "drop_desc", "set_state")
       /\ \A i \in 1..Len(last.log) :
             /\ last.log[i].ev = "release_claim"
                  => last.log[i].seen = last.pre
             /\ last.log[i].ev = "drop_handle"
                  => last.log[i].seen.desc = last.pre.desc
             /\ last.log[i].ev = "drop_desc"
                  => last.log[i].seen.bdev_handle = NoDesc
             /\ last.log[i].ev \in {"release_claim", "drop_handle", "drop_desc"}
                  => last.log[i].seen.state = last.pre.state

\* C20 witness: an Open child holding the claim, the handle and the
\* descriptor was faulted and all three were released.
C20_Witness ==
    /\ last.op = "fault"
    /\ last.pre.state = StateOpen
    /\ HasAll(last.pre)
    /\ last.preDev.claim = last.c
    /\ Count(last.log, "release_claim") = 1
    /\ Released(children[last.c])

\* The answer of the mount probe to the call recorded in csi.
Probe == findmnt_get_mountpaths(mtab, csi.out.asked.reg.s)
ProbeFstypes == {Probe.val[i].fstype : i \in 1..Len(Probe.val)}

\* C15: the outcome of freeze_volume and unfreeze_volume follows the
\* pipeline: an invalid UUID gives InvalidVolumeId with no lookup and no
\* subprocess; a registry miss gives VolumeNotFound; when the mount table
\* returns a mount the fsfreeze utility is run exactly once, with --freeze
\* (--unfreeze) and the mount target, the probe is not consulted, and the
\* result is Ok iff it exits 0, FsfreezeFailed on a non-zero exit, IOError on
\* a spawn failure; when the mount table returns nothing the utility is not
\* run, and the result is BlockDeviceMount if the probe returns a non-empty
\* list and VolumeNotFound if it returns an empty one.
C15_FreezePipeline ==
    csi.op \in {"freeze_volume", "unfreeze_volume"} =>
        LET ret == csi.out.ret
            asked == csi.out.asked
            runs == csi.out.runs
        IN /\ ~parse_str(csi.volume_id)
                => /\ ret.tag = "InvalidVolumeId"
                   /\ asked = NoAnswers
                   /\ runs = <<>>
           /\ asked.reg.tag = "None" => ret.tag = "VolumeNotFound"
           /\ asked.mnt.tag = "Some"
                => /\ runs = <<[cmd |-> FSFREEZE,
                                args |-> <<csi.value, asked.mnt.s>>]>>
                   /\ ~asked.probe
                   /\ ret.tag = "Ok" <=> asked.run.tag = "Exit0"
                   /\ asked.run.tag \in {"Exit1", "Exit1NotUtf8"}
                        => ret.tag = "FsfreezeFailed"
                   /\ asked.run.tag = "SpawnFailed" => ret.tag = "IOError"
           /\ asked.mnt.tag = "None"
                => /\ runs = <<>>
                   /\ (Probe.tag = "Ok" /\ Len(Probe.val) > 0)
                        => ret.tag = "BlockDeviceMount"
                   /\ (Probe.tag = "Ok" /\ Len(Probe.val) = 0)
                        => ret.tag = "VolumeNotFound"

\* C16: find_volume classifies by the answer of the mount probe for the
\* device path: InconsistentMountFs when the records do not all have the
\* same fstype; otherwise RawBlock iff the common fstype is devtmpfs and
\* FileSystem for any other one ("unspecified" included); VolumeNotFound
\* when the probe returns nothing or the registry lookup misses;
\* InvalidVolumeId when the volume id is not a UUID.
C16_FindVolume ==
    csi.op = "find_volume" =>
        LET ret == csi.out.ret
            asked == csi.out.asked
        IN /\ ~parse_str(csi.volume_id) => ret.tag = "InvalidVolumeId"
           /\ asked.reg.tag = "None" => ret.tag = "VolumeNotFound"
           /\ (asked.reg.tag = "Some" /\ Probe.tag = "Ok")
                => /\ asked.probe
                   /\ ProbeFstypes = {} => ret.tag = "VolumeNotFound"
                   /\ Cardinality(ProbeFstypes) > 1
                        => ret.tag = "InconsistentMountFs"
                   /\ Cardinality(ProbeFstypes) = 1
                        => /\ ret.tag = "Ok"
                           /\ ret.val = "RawBlock"
                                <=> ProbeFstypes = {<<"devtmpfs">>}
                           /\ ret.val = "FileSystem"
                                <=> ProbeFstypes # {<<"devtmpfs">>}

\* C16 witness: a volume mounted with no fstype reported is a FileSystem.
C16_Witness ==
    /\ csi.op = "find_volume"
    /\ csi.out.asked.reg.tag = "Some"
    /\ Probe.tag = "Ok"
    /\ ProbeFstypes = {<<"unspecified">>}
    /\ csi.out.ret.tag = "Ok"
    /\ csi.out.ret.val = "FileSystem"

\* The records the probe recorded in csi got from findmnt.
ProbeKey ==
    IF csi.op = "findmnt_get_devicepath" THEN TARGET_KEY ELSE SOURCE_KEY
Returned == findmnt(mtab, FindmntFilter(ProbeKey, csi.value))
ReturnedSources ==
    {Returned.val[i][SOURCE_KEY] :
        i \in {n \in 1..Len(Returned.val) :
                  SOURCE_KEY \in DOMAIN Returned.val[n]}}
BeginsDev(s) == Len(s) >= 3 /\ SubSeq(s, 1, 3) = <<"/", "dev", "/">>

\* The sources as findmnt printed them.
RECURSIVE RawSources(_), RawSourcesOf(_)
RawSourcesOf(vs) ==
    IF vs = <<>> THEN {} ELSE RawSources(Head(vs)) \cup RawSourcesOf(Tail(vs))
RawSources(v) ==
    IF v.t = "array" THEN RawSourcesOf(v.items)
    ELSE IF v.t = "object"
    THEN {v.fields[i].v.s : i \in {n \in 1..Len(v.fields) :
                                      /\ v.fields[n].k = SOURCE_KEY
                                      /\ v.fields[n].v.t = "string"}}
         \cup RawSourcesOf([i \in 1..Len(v.fields) |-> v.fields[i].v])
    ELSE {}

\* C17 as stated: whichever the filter of a mount probe, TARGET or SOURCE,
\* the source of every record it gets begins with /dev/.
C17_SourcesUnderDev ==
    (csi.op \in {"findmnt_get_devicepath", "findmnt_get_mountpaths"}
     /\ Returned.tag = "Ok")
    => \A s \in ReturnedSources : BeginsDev(s)

\* C17 amended: the source of every record a mount probe gets is normalized:
\* it is never of the form prefix[/device], and it begins with /dev/ unless
\* it is a source findmnt printed in another form, returned unchanged; the
\* records of a SOURCE probe for a device path beginning with /dev/ all
\* have a source beginning with /dev/.
C17_SourcesNormalized ==
    (csi.op \in {"findmnt_get_devicepath", "findmnt_get_mountpaths"}
     /\ Returned.tag = "Ok")
    => /\ \A s \in ReturnedSources :
             /\ Brackets(s) = {}
             /\ BeginsDev(s) \/ s \in RawSources(mtab.json)
       /\ (csi.op = "findmnt_get_mountpaths" /\ BeginsDev(csi.value))
             => \A i \in 1..Len(Returned.val) :
                    /\ SOURCE_KEY \in DOMAIN Returned.val[i]
                    /\ BeginsDev(Returned.val[i][SOURCE_KEY])
       /\ (csi.op = "findmnt_get_devicepath" /\ csi.out.ret.tag = "Ok"
            /\ csi.out.ret.val.some)
             => csi.out.ret.val.s \in ReturnedSources

\* C17 witness: a probe for /dev/x got a record findmnt printed with the
\* source dev[/x].
C17_Witness ==
    /\ csi.op = "findmnt_get_mountpaths"
    /\ csi.value = DevX
    /\ RawSources(mtab.json) = {<<"dev", "[", "/", "x", "]">>}
    /\ Returned.tag = "Ok"
    /\ ReturnedSources = {DevX}
    /\ csi.out.ret.tag = "Ok"
    /\ Len(csi.out.ret.val) = 1

\* The World the last operation started from.
PreWorld ==
    [children |-> [children EXCEPT ![last.c] = last.pre],
     dev |-> last.preDev, cfg |-> last.preCfg, log |-> <<>>,
     ret |-> Err(None)]

\* C21: out_of_sync(false) changes nothing in any state: the child's state,
\* bdev, desc, bdev_handle and err_store stay, the claim is not released
\* and the persistence hook is not invoked; out_of_sync(true) does exactly
\* what fault(OutOfSync) does and ends in Faulted(OutOfSync) from any state.
C21_OutOfSync ==
    last.op = "out_of_sync" =>
        IF last.arg[1]
        THEN LET f == fault(PreWorld, last.c, "OutOfSync") IN
             /\ children = f.children
             /\ last.postDev = f.dev
             /\ last.log = f.log
             /\ status(children[last.c]) = Faulted("OutOfSync")
        ELSE /\ children[last.c] = last.pre
             /\ last.postDev = last.preDev
             /\ last.log = <<>>

\* C21 witness: out_of_sync(false) on an Open child that holds the claim.
C21_Witness ==
    /\ last.op = "out_of_sync"
    /\ ~last.arg[1]
    /\ last.pre.state = StateOpen
    /\ HasAll(last.pre)
    /\ last.preDev.claim = last.c
    /\ children[last.c] = last.pre
    /\ dev.claim = last.c

\* C22: after a successful open() the child has an error store if and only
\* if enable_err_store was set in the configuration that open read (so an
\* open with the flag off leaves no error store, whatever an earlier open
\* allocated), and a child has none before its first open.
C22_ErrStoreIffFlag ==
    /\ (last.op \in OpenOps /\ last.ret.tag = "Ok")
          => (children[last.c].err_store # None
                <=> last.preCfg.enable_err_store)
    /\ last.op = None => \A c \in Children : children[c].err_store = None

\* C23: a child that has been Faulted(OutOfSync) is never Open again,
\* whatever open, online, close, offline, fault and out_of_sync are called
\* on it afterwards.
C23_OutOfSyncStays ==
    \A c \in live : ~synced[c] => status(children[c]) # StateOpen

\* C24: once destroy() has succeeded on a Closed child the child is
\* terminal: no later open or online makes it Open or opens the destroyed
\* device, and no later operation changes its state.  (With one child
\* alive, its device is gone exactly when its destroy() has succeeded.)
C24_DestroyTerminal ==
    (/\ last.op # None
     /\ last.pre.bdev # None
     /\ ~last.preDev.exists)
    => /\ status(children[last.c]) = last.pre.state
       /\ status(children[last.c]) # StateOpen
       /\ \A i \in 1..Len(last.log) :
             last.log[i].ev = "open_by_name" => last.log[i].claim # last.c

\* C25: close(), offline(), fault() and out_of_sync(true) on a child that
\* holds no descriptor (in Init, Closed, ConfigInvalid or Faulted) do not
\* release the claim another child, Open on the same device, holds.
C25_ReleaseOwnClaimOnly ==
    \A c \in live, o \in live :
        (/\ o # c
         /\ last.c = c
         /\ \/ last.op \in CloseOps
            \/ last.op = "fault"
            \/ last.op = "out_of_sync" /\ last.arg[1]
         /\ last.pre.state # StateOpen
         /\ Released(last.pre)
         /\ last.preDev.claim = o
         /\ status(children[o]) = StateOpen
         /\ HasAll(children[o]))
        => /\ dev.claim = o
           /\ Count(last.log, "release_claim") = 0

====
